---- MODULE Spec2Model ----
(***************************************************************************)
(* PositionalNearestNeighbor (src/param/positional.cpp): the score_* and   *)
(* count_* operations over the paired score / count parameter tables.      *)
(*                                                                         *)
(* A table entry is named by a cell <<table, index>>, the index being <<a>>*)
(* for a 1-D table and <<a, b>> for a 2-D table.  The tables are supplied  *)
(* by the caller and are far larger than the handful of entries a run      *)
(* touches, so a table is held as the map of the entries that differ from  *)
(* their contents at construction; two maps are equal exactly when the     *)
(* tables are.  ScoreType values are modelled by integers (exact sums).    *)
(***************************************************************************)
EXTENDS Integers, Sequences, FiniteSets, TLC

VARIABLES score, count, hist, trace, ret

vars == <<score, count, hist, trace, ret>>

(* ---------------------------- bounds ---------------------------------- *)
MaxCalls == 2
MaxV == 2
MaxStart == 2
MaxLen == 46
MaxGap == 1
MaxBigOff == 2
MaxSeqLen == 1

Two16 == 65536

(* ------------------------ table contents ------------------------------ *)
Cell1(t, a) == <<t, <<a>>>>
Cell2(t, a, b) == <<t, <<a, b>>>>

TableNo(t) ==
  CASE t = "helix_stacking" -> 1
    [] t = "mismatch_external" -> 2
    [] t = "mismatch_hairpin" -> 3
    [] t = "mismatch_internal" -> 4
    [] t = "mismatch_multi" -> 5
    [] t = "base_hairpin" -> 6
    [] t = "base_internal" -> 7
    [] t = "base_multi" -> 8
    [] t = "base_external" -> 9
    [] t = "hairpin_length" -> 10
    [] t = "bulge_length" -> 11
    [] t = "internal_length" -> 12
    [] t = "internal_explicit" -> 13
    [] t = "internal_symmetry" -> 14
    [] t = "internal_asymmetry" -> 15

\* contents of the score tables handed to the constructor: every entry a
\* value derived from its table and its index, so different entries differ
ScoreInit(c) ==
  IF Len(c[2]) = 1
    THEN 1000 * TableNo(c[1]) + c[2][1]
    ELSE 1000 * TableNo(c[1]) + 7 * c[2][1] + 3 * c[2][2]

\* contents of the count tables handed to the constructor (the baseline)
CountInit(c) ==
  IF Len(c[2]) = 1 THEN c[2][1] % 3 ELSE (c[2][1] + 2 * c[2][2]) % 3

ScoreGet(S, c) == IF c \in DOMAIN S THEN S[c] ELSE ScoreInit(c)

CountGet(T, c) == IF c \in DOMAIN T THEN T[c] ELSE CountInit(c)

\* count_T(index) = v: assignment in place of accumulation
CountSet(T, c, v) ==
  IF v = CountInit(c)
    THEN [d \in (DOMAIN T) \ {c} |-> T[d]]
    ELSE [d \in (DOMAIN T) \cup {c} |-> IF d = c THEN v ELSE T[d]]

\* count_T(index) += v
CountAdd(T, c, v) ==
  LET x == CountGet(T, c) + v
  IN IF x = CountInit(c)
       THEN [d \in (DOMAIN T) \ {c} |-> T[d]]
       ELSE [d \in (DOMAIN T) \cup {c} |-> IF d = c THEN x ELSE T[d]]

\* e += score_T(index): the running sum and the entries read so far
Rd(acc, S, c) == [e |-> acc.e + ScoreGet(S, c), reads |-> Append(acc.reads, c)]

Acc0 == [e |-> 0, reads |-> <<>>]

(* ------------------------ integer conversions -------------------------- *)
\* conversion of a size_t to u_int32_t: the value modulo 2^32
u_int32_t(x) == x - ((x \div Two16) \div Two16) * Two16 * Two16

\* conversion of a size_t to u_int16_t: the value modulo 2^16
u_int16_t(x) == x % Two16

\* std::min<u_int32_t>(a, b)
min_u32(a, b) == IF u_int32_t(b) < u_int32_t(a) THEN u_int32_t(b) ELSE u_int32_t(a)

\* std::min<u_int16_t>(a, b)
min_u16(a, b) == IF u_int16_t(b) < u_int16_t(a) THEN u_int16_t(b) ELSE u_int16_t(a)

\* std::minmax(l1, l2)
minmax(a, b) == IF b < a THEN <<b, a>> ELSE <<a, b>>

(* ----------------------------- hairpin -------------------------------- *)
score_hairpin(S, i, j) ==
  LET l == (j-1)-(i+1)+1
      e1 == Rd(Acc0, S, Cell1("hairpin_length", min_u32(l, 30)))
      e2 == Rd(e1, S, Cell2("base_hairpin", i+1, j-1))
      e3 == Rd(e2, S, Cell2("mismatch_hairpin", i, j))
  IN e3

\* the disabled branch of count_hairpin: fold long loops into bucket 30
count_hairpin_clamp(T, i, j, v) ==
  LET l == (j-1)-(i+1)+1
      T1 == CountAdd(T, Cell1("hairpin_length", min_u32(l, 30)), v)
      T2 == CountAdd(T1, Cell2("base_hairpin", i+1, j-1), v)
      T3 == CountAdd(T2, Cell2("mismatch_hairpin", i, j), v)
  IN T3

count_hairpin(T, i, j, v) ==
  LET l == (j-1)-(i+1)+1
      T1 == IF l <= 30 THEN CountAdd(T, Cell1("hairpin_length", l), v) ELSE T
      T2 == CountAdd(T1, Cell2("base_hairpin", i+1, j-1), v)
      T3 == CountAdd(T2, Cell2("mismatch_hairpin", i, j), v)
  IN T3

(* --------------------------- single loop ------------------------------ *)
\* score_single_loop, the branch ll == 0
score_single_loop_stack(S, i, j, k, l) ==
  LET e1 == Rd(Acc0, S, Cell2("helix_stacking", i, j))
      e2 == Rd(e1, S, Cell2("helix_stacking", l, k))
  IN e2

\* score_single_loop, the branch ls == 0
score_single_loop_bulge(S, i, j, k, l, ll) ==
  LET e1 == Rd(Acc0, S, Cell1("bulge_length", min_u16(ll, 30)))
      e2 == Rd(e1, S, Cell2("base_internal", i+1, k-1))
      e3 == Rd(e2, S, Cell2("base_internal", l+1, j-1))
      e4 == Rd(e3, S, Cell2("mismatch_internal", i, j))
      e5 == Rd(e4, S, Cell2("mismatch_internal", l, k))
  IN e5

\* score_single_loop, the last branch
score_single_loop_internal(S, i, j, k, l, ls, ll) ==
  LET e1 == Rd(Acc0, S, Cell1("internal_length", min_u32(ls+ll, 30)))
      e2 == Rd(e1, S, Cell2("base_internal", i+1, k-1))
      e3 == Rd(e2, S, Cell2("base_internal", l+1, j-1))
      e4 == Rd(e3, S, Cell2("internal_explicit", min_u32(ls, 4), min_u32(ll, 4)))
      e5 == IF ls = ll
              THEN Rd(e4, S, Cell1("internal_symmetry", min_u32(ll, 15)))
              ELSE e4
      e6 == Rd(e5, S, Cell1("internal_asymmetry", min_u32(ll-ls, 28)))
      e7 == Rd(e6, S, Cell2("mismatch_internal", i, j))
      e8 == Rd(e7, S, Cell2("mismatch_internal", l, k))
  IN e8

score_single_loop(S, i, j, k, l) ==
  LET l1 == (k-1)-(i+1)+1
      l2 == (j-1)-(l+1)+1
      ls == minmax(l1, l2)[1]
      ll == minmax(l1, l2)[2]
  IN IF ll = 0 THEN score_single_loop_stack(S, i, j, k, l)
     ELSE IF ls = 0 THEN score_single_loop_bulge(S, i, j, k, l, ll)
     ELSE score_single_loop_internal(S, i, j, k, l, ls, ll)

\* the stack branch with the inner pair written as the outer one
count_single_loop_stack_dup(T, i, j, k, l, v) ==
  LET T1 == CountAdd(T, Cell2("helix_stacking", i, j), v)
      T2 == CountAdd(T1, Cell2("helix_stacking", i, j), v)
  IN T2

\* count_single_loop, the branch ll == 0
count_single_loop_stack(T, i, j, k, l, v) ==
  LET T1 == CountAdd(T, Cell2("helix_stacking", i, j), v)
      T2 == CountAdd(T1, Cell2("helix_stacking", l, k), v)
  IN T2

\* count_single_loop, the branch ls == 0
count_single_loop_bulge(T, i, j, k, l, ll, v) ==
  LET T1 == IF ll <= 30 THEN CountAdd(T, Cell1("bulge_length", ll), v) ELSE T
      T2 == CountAdd(T1, Cell2("base_internal", i+1, k-1), v)
      T3 == CountAdd(T2, Cell2("base_internal", l+1, j-1), v)
      T4 == CountAdd(T3, Cell2("mismatch_internal", i, j), v)
      T5 == CountAdd(T4, Cell2("mismatch_internal", l, k), v)
  IN T5

\* the internal branch with the disabled clamp of the length entry
count_single_loop_internal_clamp(T, i, j, k, l, ls, ll, v) ==
  LET T1 == CountAdd(T, Cell1("internal_length", min_u32(ls+ll, 30)), v)
      T2 == CountAdd(T1, Cell2("base_internal", i+1, k-1), v)
      T3 == CountAdd(T2, Cell2("base_internal", l+1, j-1), v)
      T4 == CountAdd(T3, Cell2("internal_explicit", min_u32(ls, 4), min_u32(ll, 4)), v)
      T5 == IF ls = ll
              THEN CountAdd(T4, Cell1("internal_symmetry", min_u32(ll, 15)), v)
              ELSE T4
      T6 == CountAdd(T5, Cell1("internal_asymmetry", min_u32(ll-ls, 28)), v)
      T7 == CountAdd(T6, Cell2("mismatch_internal", i, j), v)
      T8 == CountAdd(T7, Cell2("mismatch_internal", l, k), v)
  IN T8

\* the internal branch without the test ls == ll
count_single_loop_internal_ungated(T, i, j, k, l, ls, ll, v) ==
  LET T1 == IF ls+ll <= 30
              THEN CountAdd(T, Cell1("internal_length", ls+ll), v)
              ELSE T
      T2 == CountAdd(T1, Cell2("base_internal", i+1, k-1), v)
      T3 == CountAdd(T2, Cell2("base_internal", l+1, j-1), v)
      T4 == CountAdd(T3, Cell2("internal_explicit", min_u32(ls, 4), min_u32(ll, 4)), v)
      T5 == CountAdd(T4, Cell1("internal_symmetry", min_u32(ll, 15)), v)
      T6 == CountAdd(T5, Cell1("internal_asymmetry", min_u32(ll-ls, 28)), v)
      T7 == CountAdd(T6, Cell2("mismatch_internal", i, j), v)
      T8 == CountAdd(T7, Cell2("mismatch_internal", l, k), v)
  IN T8

\* count_single_loop, the last branch
count_single_loop_internal(T, i, j, k, l, ls, ll, v) ==
  LET T1 == IF ls+ll <= 30
              THEN CountAdd(T, Cell1("internal_length", ls+ll), v)
              ELSE T
      T2 == CountAdd(T1, Cell2("base_internal", i+1, k-1), v)
      T3 == CountAdd(T2, Cell2("base_internal", l+1, j-1), v)
      T4 == CountAdd(T3, Cell2("internal_explicit", min_u32(ls, 4), min_u32(ll, 4)), v)
      T5 == IF ls = ll
              THEN CountAdd(T4, Cell1("internal_symmetry", min_u32(ll, 15)), v)
              ELSE T4
      T6 == CountAdd(T5, Cell1("internal_asymmetry", min_u32(ll-ls, 28)), v)
      T7 == CountAdd(T6, Cell2("mismatch_internal", i, j), v)
      T8 == CountAdd(T7, Cell2("mismatch_internal", l, k), v)
  IN T8

\* the branches tested in the other order: ls == 0 before ll == 0
count_single_loop_bulge_first(T, i, j, k, l, v) ==
  LET l1 == (k-1)-(i+1)+1
      l2 == (j-1)-(l+1)+1
      ls == minmax(l1, l2)[1]
      ll == minmax(l1, l2)[2]
  IN IF ls = 0 THEN count_single_loop_bulge(T, i, j, k, l, ll, v)
     ELSE IF ll = 0 THEN count_single_loop_stack(T, i, j, k, l, v)
     ELSE count_single_loop_internal(T, i, j, k, l, ls, ll, v)

count_single_loop(T, i, j, k, l, v) ==
  LET l1 == (k-1)-(i+1)+1
      l2 == (j-1)-(l+1)+1
      ls == minmax(l1, l2)[1]
      ll == minmax(l1, l2)[2]
  IN IF ll = 0 THEN count_single_loop_stack(T, i, j, k, l, v)
     ELSE IF ls = 0 THEN count_single_loop_bulge(T, i, j, k, l, ll, v)
     ELSE count_single_loop_internal(T, i, j, k, l, ls, ll, v)

(* ------------------------- multi / external --------------------------- *)
score_multi_loop(S, i, j) == Rd(Acc0, S, Cell2("mismatch_multi", i, j))

\* count_mismatch_multi_(i, j) = v in place of += v
count_multi_loop_assign(T, i, j, v) == CountSet(T, Cell2("mismatch_multi", i, j), v)

count_multi_loop(T, i, j, v) == CountAdd(T, Cell2("mismatch_multi", i, j), v)

score_multi_paired(S, i, j) == Rd(Acc0, S, Cell2("mismatch_multi", j, i))

\* the paired role without the index reversal
count_multi_paired_direct(T, i, j, v) == CountAdd(T, Cell2("mismatch_multi", i, j), v)

count_multi_paired(T, i, j, v) == CountAdd(T, Cell2("mismatch_multi", j, i), v)

score_multi_unpaired(S, i, j) == Rd(Acc0, S, Cell2("base_multi", i, j))

count_multi_unpaired(T, i, j, v) == CountAdd(T, Cell2("base_multi", i, j), v)

score_external_paired(S, i, j) == Rd(Acc0, S, Cell2("mismatch_external", j, i))

count_external_paired(T, i, j, v) == CountAdd(T, Cell2("mismatch_external", j, i), v)

score_external_unpaired(S, i, j) == Rd(Acc0, S, Cell2("base_external", i, j))

count_external_unpaired(T, i, j, v) == CountAdd(T, Cell2("base_external", i, j), v)

(* ------------------------------ callers ------------------------------- *)
\* the weights v a caller passes to count_*
Weights == 0..MaxV

\* (i, j) closing a hairpin of l unpaired bases
HairpinArgs(starts, lens) == {<<i, i + l + 1>> : i \in starts, l \in lens}

\* (i, j, k, l) with l1 and l2 unpaired bases on the two sides, i < k <= l < j
SingleArgs(starts, lens, gaps) ==
  {<<q[1], q[1] + q[2] + 1 + q[4] + q[3] + 1, q[1] + q[2] + 1, q[1] + q[2] + 1 + q[4]>> :
     q \in starts \X lens \X lens \X gaps}

\* lengths around the buckets of the length tables and around 2^16
WideLens == (0..MaxLen) \cup {Two16 - 1 + d : d \in 0..MaxBigOff}

WideHairpin == HairpinArgs(0..MaxStart, WideLens)

WideSingle == SingleArgs(0..MaxStart, WideLens, 0..MaxGap)

WidePairs == (0..MaxStart) \X (0..MaxStart)

\* the shortest loops of a session and loops MaxSeqLen long
SeqLens == {0, MaxSeqLen}

SeqHairpin == HairpinArgs({0}, SeqLens)

SeqSingle == SingleArgs({0}, SeqLens, {MaxGap})

SeqPairs == {<<0, MaxSeqLen>>, <<MaxSeqLen, 0>>}

NoRet == [e |-> 0, reads |-> <<>>]

\* a score_* call: the tables are left as they are, the sum is returned
ScoreCall(op, a, r) ==
  /\ Len(hist) < MaxCalls
  /\ hist' = Append(hist, [op |-> op, args |-> a, v |-> 0])
  /\ ret' = r
  /\ trace' = Append(trace, count)
  /\ UNCHANGED <<score, count>>

\* a count_* call: the count tables become T
CountCall(op, a, v, T) ==
  /\ Len(hist) < MaxCalls
  /\ hist' = Append(hist, [op |-> op, args |-> a, v |-> v])
  /\ ret' = NoRet
  /\ count' = T
  /\ trace' = Append(trace, T)
  /\ UNCHANGED score

ScoreHairpin(A) ==
  \E a \in A : ScoreCall("score_hairpin", a, score_hairpin(score, a[1], a[2]))

CountHairpin(A) ==
  \E a \in A, v \in Weights :
    CountCall("count_hairpin", a, v, count_hairpin(count, a[1], a[2], v))

ScoreSingleLoop(A) ==
  \E a \in A :
    ScoreCall("score_single_loop", a, score_single_loop(score, a[1], a[2], a[3], a[4]))

CountSingleLoop(A) ==
  \E a \in A, v \in Weights :
    CountCall("count_single_loop", a, v,
              count_single_loop(count, a[1], a[2], a[3], a[4], v))

ScoreMultiLoop(A) ==
  \E a \in A : ScoreCall("score_multi_loop", a, score_multi_loop(score, a[1], a[2]))

CountMultiLoop(A) ==
  \E a \in A, v \in Weights :
    CountCall("count_multi_loop", a, v, count_multi_loop(count, a[1], a[2], v))

ScoreMultiPaired(A) ==
  \E a \in A : ScoreCall("score_multi_paired", a, score_multi_paired(score, a[1], a[2]))

CountMultiPaired(A) ==
  \E a \in A, v \in Weights :
    CountCall("count_multi_paired", a, v, count_multi_paired(count, a[1], a[2], v))

ScoreMultiUnpaired(A) ==
  \E a \in A : ScoreCall("score_multi_unpaired", a, score_multi_unpaired(score, a[1], a[2]))

CountMultiUnpaired(A) ==
  \E a \in A, v \in Weights :
    CountCall("count_multi_unpaired", a, v, count_multi_unpaired(count, a[1], a[2], v))

ScoreExternalPaired(A) ==
  \E a \in A :
    ScoreCall("score_external_paired", a, score_external_paired(score, a[1], a[2]))

CountExternalPaired(A) ==
  \E a \in A, v \in Weights :
    CountCall("count_external_paired", a, v, count_external_paired(count, a[1], a[2], v))

ScoreExternalUnpaired(A) ==
  \E a \in A :
    ScoreCall("score_external_unpaired", a, score_external_unpaired(score, a[1], a[2]))

CountExternalUnpaired(A) ==
  \E a \in A, v \in Weights :
    CountCall("count_external_unpaired", a, v, count_external_unpaired(count, a[1], a[2], v))

\* after construction: both families of tables hold what the caller supplied
Init ==
  /\ score = << >>
  /\ count = << >>
  /\ hist = << >>
  /\ trace = << << >> >>
  /\ ret = NoRet

\* a session: up to MaxCalls calls on a short sequence
Next ==
  \/ ScoreHairpin(SeqHairpin)
  \/ CountHairpin(SeqHairpin)
  \/ ScoreSingleLoop(SeqSingle)
  \/ CountSingleLoop(SeqSingle)
  \/ ScoreMultiLoop(SeqPairs)
  \/ CountMultiLoop(SeqPairs)
  \/ ScoreMultiPaired(SeqPairs)
  \/ CountMultiPaired(SeqPairs)
  \/ ScoreMultiUnpaired(SeqPairs)
  \/ CountMultiUnpaired(SeqPairs)
  \/ ScoreExternalPaired(SeqPairs)
  \/ CountExternalPaired(SeqPairs)
  \/ ScoreExternalUnpaired(SeqPairs)
  \/ CountExternalUnpaired(SeqPairs)

Spec == Init /\ [][Next]_vars

\* one call on a long sequence, over every loop length around the buckets
OneCall == Len(hist) = 0

NextWide ==
  \/ OneCall /\ ScoreHairpin(WideHairpin)
  \/ OneCall /\ CountHairpin(WideHairpin)
  \/ OneCall /\ ScoreSingleLoop(WideSingle)
  \/ OneCall /\ CountSingleLoop(WideSingle)
  \/ OneCall /\ ScoreMultiLoop(WidePairs)
  \/ OneCall /\ CountMultiLoop(WidePairs)
  \/ OneCall /\ ScoreMultiPaired(WidePairs)
  \/ OneCall /\ CountMultiPaired(WidePairs)
  \/ OneCall /\ ScoreMultiUnpaired(WidePairs)
  \/ OneCall /\ CountMultiUnpaired(WidePairs)
  \/ OneCall /\ ScoreExternalPaired(WidePairs)
  \/ OneCall /\ CountExternalPaired(WidePairs)
  \/ OneCall /\ ScoreExternalUnpaired(WidePairs)
  \/ OneCall /\ CountExternalUnpaired(WidePairs)

SpecWide == Init /\ [][NextWide]_vars

TypeOK ==
  /\ Len(trace) = Len(hist) + 1
  /\ trace[Len(trace)] = count

(* ====================== properties of the calls ======================= *)
CountOps == {"count_hairpin", "count_single_loop", "count_multi_loop",
             "count_multi_paired", "count_multi_unpaired",
             "count_external_paired", "count_external_unpaired"}

HasLast == Len(hist) > 0
Last == hist[Len(hist)]
Pre == trace[Len(hist)]
IsCount(r) == r.op \in CountOps

Min(a, b) == IF a < b THEN a ELSE b
Max(a, b) == IF a < b THEN b ELSE a
SeqSet(s) == {s[n] : n \in DOMAIN s}
Occurrences(s, c) == Cardinality({n \in DOMAIN s : s[n] = c})

\* the count-table entries whose value differs between A and B
Changed(A, B) == {c \in (DOMAIN A) \cup (DOMAIN B) : CountGet(A, c) # CountGet(B, c)}

\* the unpaired lengths of a single-loop argument tuple (i, j, k, l)
L1(a) == a[3] - a[1] - 1
L2(a) == a[2] - a[4] - 1
LS(a) == Min(L1(a), L2(a))
LL(a) == Max(L1(a), L2(a))
IsSingle(r) == r.op \in {"score_single_loop", "count_single_loop"}
IsHairpin(r) == r.op \in {"score_hairpin", "count_hairpin"}

\* what the scoring counterpart of a call reads, for the same arguments
ScoreReadsOf(r) ==
  LET a == r.args
  IN CASE IsHairpin(r) -> score_hairpin(score, a[1], a[2]).reads
       [] IsSingle(r) -> score_single_loop(score, a[1], a[2], a[3], a[4]).reads
       [] r.op \in {"score_multi_loop", "count_multi_loop"} ->
            score_multi_loop(score, a[1], a[2]).reads
       [] r.op \in {"score_multi_paired", "count_multi_paired"} ->
            score_multi_paired(score, a[1], a[2]).reads
       [] r.op \in {"score_multi_unpaired", "count_multi_unpaired"} ->
            score_multi_unpaired(score, a[1], a[2]).reads
       [] r.op \in {"score_external_paired", "count_external_paired"} ->
            score_external_paired(score, a[1], a[2]).reads
       [] r.op \in {"score_external_unpaired", "count_external_unpaired"} ->
            score_external_unpaired(score, a[1], a[2]).reads

\* the raw length that indexes the length table of a call
RawLen(r) ==
  CASE IsHairpin(r) -> r.args[2] - r.args[1] - 1
    [] IsSingle(r) -> IF LS(r.args) = 0 THEN LL(r.args) ELSE LS(r.args) + LL(r.args)
    [] OTHER -> 0

LengthTables == {"hairpin_length", "bulge_length", "internal_length"}

\* the entries the scoring counterpart reads, less the length entry of a
\* loop longer than 30
Mirrored(r) ==
  {c \in SeqSet(ScoreReadsOf(r)) : ~(c[1] \in LengthTables /\ RawLen(r) > 30)}

\* the same call applied to tables T
ApplyCount(T, r) ==
  LET a == r.args
  IN CASE r.op = "count_hairpin" -> count_hairpin(T, a[1], a[2], r.v)
       [] r.op = "count_single_loop" -> count_single_loop(T, a[1], a[2], a[3], a[4], r.v)
       [] r.op = "count_multi_loop" -> count_multi_loop(T, a[1], a[2], r.v)
       [] r.op = "count_multi_paired" -> count_multi_paired(T, a[1], a[2], r.v)
       [] r.op = "count_multi_unpaired" -> count_multi_unpaired(T, a[1], a[2], r.v)
       [] r.op = "count_external_paired" -> count_external_paired(T, a[1], a[2], r.v)
       [] r.op = "count_external_unpaired" -> count_external_unpaired(T, a[1], a[2], r.v)
       [] OTHER -> T

\* C1: a count_X call adds v to exactly the entries score_X reads for the
\* same arguments and changes nothing else, except that the hairpin_length,
\* bulge_length or internal_length entry is left alone when the raw length
\* exceeds 30.
C1_CountMirrorsScore ==
  (HasLast /\ IsCount(Last)) =>
    \A c \in Mirrored(Last) \cup (DOMAIN count) \cup (DOMAIN Pre) :
      CountGet(count, c) =
        CountGet(Pre, c) + (IF c \in Mirrored(Last) THEN Last.v ELSE 0)

C1_Witness ==
  /\ HasLast
  /\ Last.op = "count_single_loop"
  /\ LS(Last.args) >= 1
  /\ LS(Last.args) + LL(Last.args) > 30
  /\ Last.v # 0
  /\ Cardinality(Changed(Pre, count)) = Len(ScoreReadsOf(Last)) - 1

\* C2: score_hairpin(i,j) = hairpin_length[min(l,30)] + base_hairpin(i+1,j-1)
\* + mismatch_hairpin(i,j) with l = j-i-1; count_hairpin adds v to
\* base_hairpin(i+1,j-1) and mismatch_hairpin(i,j) always, to hairpin_length[l]
\* when l <= 30, and leaves all of hairpin_length unchanged when l > 30.
C2_Hairpin ==
  (HasLast /\ IsHairpin(Last)) =>
    LET i == Last.args[1]
        j == Last.args[2]
        l == j - i - 1
        hl == Cell1("hairpin_length", Min(l, 30))
        bh == Cell2("base_hairpin", i + 1, j - 1)
        mh == Cell2("mismatch_hairpin", i, j)
    IN /\ Last.op = "score_hairpin" =>
            /\ ret.reads = <<hl, bh, mh>>
            /\ ret.e = ScoreGet(score, hl) + ScoreGet(score, bh) + ScoreGet(score, mh)
       /\ Last.op = "count_hairpin" =>
            /\ CountGet(count, bh) = CountGet(Pre, bh) + Last.v
            /\ CountGet(count, mh) = CountGet(Pre, mh) + Last.v
            /\ l <= 30 => CountGet(count, hl) = CountGet(Pre, hl) + Last.v
            /\ l > 30 => \A c \in Changed(Pre, count) : c[1] # "hairpin_length"

C2_Witness ==
  /\ HasLast
  /\ Last.op = "count_hairpin"
  /\ Last.args = <<2, 48>>
  /\ Last.v = 2
  /\ Changed(Pre, count) = {Cell2("base_hairpin", 3, 47), Cell2("mismatch_hairpin", 2, 48)}

\* what C3 says score_single_loop returns
C3_Expected(a) ==
  LET i == a[1]
      j == a[2]
      k == a[3]
      l == a[4]
      ls == LS(a)
      ll == LL(a)
  IN IF L1(a) = 0 /\ L2(a) = 0 THEN
       <<Cell2("helix_stacking", i, j), Cell2("helix_stacking", l, k)>>
     ELSE IF L1(a) = 0 \/ L2(a) = 0 THEN
       <<Cell1("bulge_length", Min(ll, 30)),
         Cell2("base_internal", i+1, k-1), Cell2("base_internal", l+1, j-1),
         Cell2("mismatch_internal", i, j), Cell2("mismatch_internal", l, k)>>
     ELSE
       <<Cell1("internal_length", Min(ls + ll, 30)),
         Cell2("base_internal", i+1, k-1), Cell2("base_internal", l+1, j-1),
         Cell2("internal_explicit", Min(ls, 4), Min(ll, 4))>>
       \o (IF ls = ll THEN <<Cell1("internal_symmetry", Min(ll, 15))>> ELSE << >>)
       \o <<Cell1("internal_asymmetry", Min(ll - ls, 28)),
            Cell2("mismatch_internal", i, j), Cell2("mismatch_internal", l, k)>>

RECURSIVE ScoreSum(_, _)
ScoreSum(S, cells) ==
  IF cells = << >> THEN 0 ELSE ScoreGet(S, Head(cells)) + ScoreSum(S, Tail(cells))

\* the tables of the branch a single-loop count call took
BranchTables(a) ==
  IF L1(a) = 0 /\ L2(a) = 0 THEN {"helix_stacking"}
  ELSE IF L1(a) = 0 \/ L2(a) = 0
    THEN {"bulge_length", "base_internal", "mismatch_internal"}
    ELSE {"internal_length", "base_internal", "internal_explicit",
          "internal_symmetry", "internal_asymmetry", "mismatch_internal"}

\* C3: score_single_loop classifies stack / bulge / internal by l1 and l2 and
\* returns the sum of the entries of that class, the bulge length entry being
\* bulge_length[min(ll,30)]; count_single_loop takes the same branch.
C3_SingleLoopClasses ==
  (HasLast /\ IsSingle(Last)) =>
    /\ Last.op = "score_single_loop" =>
         /\ ret.reads = C3_Expected(Last.args)
         /\ ret.e = ScoreSum(score, C3_Expected(Last.args))
    /\ Last.op = "count_single_loop" =>
         \A c \in Changed(Pre, count) : c[1] \in BranchTables(Last.args)

\* C5: a bulge of any length ll is scored through bulge_length[min(ll,30)]
C5_BulgeLengthClamp ==
  (HasLast /\ Last.op = "score_single_loop"
     /\ LS(Last.args) = 0 /\ LL(Last.args) >= 1) =>
    /\ ret.reads[1] = Cell1("bulge_length", Min(LL(Last.args), 30))
    /\ \A n \in DOMAIN ret.reads :
         ret.reads[n][1] = "bulge_length" => n = 1

\* C6: a single-loop call with ll = 0 reads, and changes, only
\* helix_stacking(i,j) and helix_stacking(l,k).
C6_StackIsolation ==
  (HasLast /\ IsSingle(Last) /\ LL(Last.args) = 0) =>
    LET a == Last.args
        hs == {Cell2("helix_stacking", a[1], a[2]), Cell2("helix_stacking", a[4], a[3])}
    IN /\ Last.op = "score_single_loop" =>
            /\ SeqSet(ret.reads) = hs
            /\ Len(ret.reads) = 2
       /\ Last.op = "count_single_loop" =>
            /\ Changed(Pre, count) \subseteq hs
            /\ \A c \in hs : CountGet(count, c) = CountGet(Pre, c) + Last.v
            /\ \A c \in (DOMAIN count) \cup (DOMAIN Pre) :
                 c[1] # "helix_stacking" => CountGet(count, c) = CountGet(Pre, c)

C6_Witness ==
  /\ HasLast
  /\ Last.op = "count_single_loop"
  /\ LL(Last.args) = 0
  /\ Last.v # 0
  /\ Cardinality(Changed(Pre, count)) = 2

\* C7: in an internal loop, internal_symmetry[min(ll,15)] is read once and
\* incremented once by v when ls = ll, and no internal_symmetry entry is
\* read or changed when ls # ll.
C7_SymmetryGate ==
  (HasLast /\ IsSingle(Last) /\ LS(Last.args) >= 1) =>
    LET ls == LS(Last.args)
        ll == LL(Last.args)
        sym == Cell1("internal_symmetry", Min(ll, 15))
        symReads == {n \in DOMAIN ret.reads : ret.reads[n][1] = "internal_symmetry"}
        symChanged == {c \in Changed(Pre, count) : c[1] = "internal_symmetry"}
    IN /\ Last.op = "score_single_loop" =>
            IF ls = ll
              THEN Occurrences(ret.reads, sym) = 1 /\ Cardinality(symReads) = 1
              ELSE symReads = {}
       /\ Last.op = "count_single_loop" =>
            IF ls = ll
              THEN /\ CountGet(count, sym) = CountGet(Pre, sym) + Last.v
                   /\ symChanged \subseteq {sym}
              ELSE symChanged = {}

C7_Witness ==
  /\ HasLast
  /\ Last.op = "count_single_loop"
  /\ LS(Last.args) = 7
  /\ LL(Last.args) = 7
  /\ Last.v # 0
  /\ Cell1("internal_symmetry", 7) \in Changed(Pre, count)

\* C8: the paired operations use index (j,i): score_multi_paired(i,j) reads
\* mismatch_multi(j,i) and equals score_multi_loop(j,i), score_external_paired
\* reads mismatch_external(j,i), their count operations add v at (j,i); the
\* unpaired operations use base_multi(i,j) and base_external(i,j).
C8_Cell(op, i, j) ==
  CASE op \in {"score_multi_paired", "count_multi_paired"} -> Cell2("mismatch_multi", j, i)
    [] op \in {"score_external_paired", "count_external_paired"} ->
         Cell2("mismatch_external", j, i)
    [] op \in {"score_multi_unpaired", "count_multi_unpaired"} -> Cell2("base_multi", i, j)
    [] op \in {"score_external_unpaired", "count_external_unpaired"} ->
         Cell2("base_external", i, j)

C8_Ops == {"score_multi_paired", "count_multi_paired",
           "score_external_paired", "count_external_paired",
           "score_multi_unpaired", "count_multi_unpaired",
           "score_external_unpaired", "count_external_unpaired"}

C8_TransposedAccess ==
  (HasLast /\ Last.op \in C8_Ops) =>
    LET i == Last.args[1]
        j == Last.args[2]
        c == C8_Cell(Last.op, i, j)
    IN /\ ~IsCount(Last) =>
            /\ ret.reads = <<c>>
            /\ ret.e = ScoreGet(score, c)
       /\ Last.op = "score_multi_paired" => ret = score_multi_loop(score, j, i)
       /\ IsCount(Last) =>
            /\ CountGet(count, c) = CountGet(Pre, c) + Last.v
            /\ Changed(Pre, count) \subseteq {c}

C8_Witness ==
  /\ HasLast
  /\ Last.op = "count_multi_paired"
  /\ Last.args = <<1, 2>>
  /\ Last.v # 0
  /\ Changed(Pre, count) = {Cell2("mismatch_multi", 2, 1)}

\* C10: the entries one count_single_loop call writes are pairwise distinct,
\* so every entry the call changes grows by exactly v.
C10_DistinctCells ==
  (HasLast /\ Last.op = "count_single_loop") =>
    LET i == Last.args[1]
        j == Last.args[2]
        k == Last.args[3]
        l == Last.args[4]
    IN /\ i < k /\ k <= l /\ l < j
       /\ <<i, j>> # <<l, k>>
       /\ <<i + 1, k - 1>> # <<l + 1, j - 1>>
       /\ \A c \in Changed(Pre, count) : CountGet(count, c) = CountGet(Pre, c) + Last.v
       /\ \A c \in Mirrored(Last) : CountGet(count, c) = CountGet(Pre, c) + Last.v

C10_Witness ==
  /\ HasLast
  /\ Last.op = "count_single_loop"
  /\ Last.args[3] = Last.args[4]
  /\ LS(Last.args) = 0
  /\ LL(Last.args) = 1
  /\ Last.v = 1
  /\ Cardinality(Changed(Pre, count)) = 5

(* =================== properties of a whole session ==================== *)
RECURSIVE SumV(_, _)
\* the sum of the weights of the first n calls that were to touch entry c
SumV(n, c) ==
  IF n = 0 THEN 0
  ELSE SumV(n - 1, c)
       + (IF IsCount(hist[n]) /\ c \in Mirrored(hist[n]) THEN hist[n].v ELSE 0)

RECURSIVE Replay(_, _)
\* the count tables after the calls of s, from tables T
Replay(T, s) == IF s = << >> THEN T ELSE Replay(ApplyCount(T, Head(s)), Tail(s))

Perms(n) == {p \in [1..n -> 1..n] : \A x, y \in 1..n : x # y => p[x] # p[y]}

\* C4: count_X(args, v1) then count_X(args, v2) leaves every touched entry at
\* its earlier value plus v1+v2, the same with v1 and v2 swapped, and
\* count_X(args, 0) changes nothing.
C4_Additivity ==
  /\ (HasLast /\ IsCount(Last) /\ Last.v = 0) => count = Pre
  /\ (Len(hist) >= 2 /\ IsCount(Last)
        /\ hist[Len(hist) - 1].op = Last.op
        /\ hist[Len(hist) - 1].args = Last.args) =>
       LET r1 == hist[Len(hist) - 1]
           r2 == Last
           before == trace[Len(hist) - 1]
       IN /\ \A c \in Mirrored(Last) :
               CountGet(count, c) = CountGet(before, c) + (r1.v + r2.v)
          /\ \A c \in Changed(before, count) : c \in Mirrored(Last)
          /\ ApplyCount(ApplyCount(before, r2), r1) = count

C4_Witness ==
  /\ Len(hist) >= 2
  /\ Last.op = "count_single_loop"
  /\ hist[Len(hist) - 1].op = Last.op
  /\ hist[Len(hist) - 1].args = Last.args
  /\ hist[Len(hist) - 1].v = 1
  /\ Last.v = 2
  /\ LS(Last.args) >= 1

\* C9: over a session the score tables keep their contents, score calls leave
\* the count tables alone, every count entry is its baseline plus the weights
\* of the count calls that touched it, and the order of the count calls does
\* not matter.
C9_Session ==
  /\ score = << >>
  /\ \A n \in DOMAIN hist : ~IsCount(hist[n]) => trace[n + 1] = trace[n]
  /\ \A c \in (DOMAIN count) \cup UNION {Mirrored(hist[n]) : n \in DOMAIN hist} :
       CountGet(count, c) = CountInit(c) + SumV(Len(hist), c)
  /\ \A p \in Perms(Len(hist)) :
       Replay(<< >>, [n \in 1..Len(hist) |-> hist[p[n]]]) = count

C9_Witness ==
  /\ Len(hist) >= 2
  /\ hist[1].op = "count_multi_loop"
  /\ hist[1].v = 1
  /\ hist[2].op = "count_multi_paired"
  /\ hist[2].v = 2
  /\ \E c \in DOMAIN count : count[c] = CountInit(c) + 3

====
